---------------------------- MODULE Spec2Model ----------------------------
(***************************************************************************)
(* The task orchestration engine of src/modules/tasks.py: the status       *)
(* store (task_status), the cancellation registry (running_tasks), the     *)
(* three job runners (single item, fan-out over a thread pool, document    *)
(* pipeline), the facade operations of src/app.py that act on them, the    *)
(* rate limiter, and the pure helpers of src/modules/q_generation_func.py. *)
(*                                                                         *)
(* Threads interleave between statements that touch shared state; a block  *)
(* under status_lock is one step.  Python dicts are functions whose domain *)
(* is the set of keys present, so a missing key is a missing domain        *)
(* element.                                                                *)
(***************************************************************************)
EXTENDS Integers, Sequences, FiniteSets, TLC

\* ------------------------------------------------------------------ bounds
MaxTasks == 1
MaxQuestions == 2
MaxWorkers == 2

TaskIds == 1..MaxTasks

\* ----------------------------------------------------------- dict helpers
EmptyDict == [x \in {} |-> 0]

Get(d, key, default) == IF key \in DOMAIN d THEN d[key] ELSE default

Put(d, key, val) == [k \in DOMAIN d \cup {key} |-> IF k = key THEN val ELSE d[k]]

Pop(d, key) == [k \in DOMAIN d \ {key} |-> d[k]]

\* --------------------------------------------------------------- messages
\* A message is the sequence of its words; the collaborators' own text is
\* one of two samples, one of which carries the word the handlers look for.
NoError == <<"None">>
MsgCancelRequested == <<"Cancellation", "requested", "by", "user.">>
MsgTaskWasCancelled == <<"Task", "was", "cancelled.">>
MsgCancelledAfterGen == <<"Task", "was", "cancelled", "after", "explanation", "generation.">>
MsgQuestionNotFound == <<"Question", "with", "ID", "not", "found">>
MsgNoOptions == <<"No", "options", "found", "for", "this", "question">>
MsgNoCorrect == <<"No", "correct", "answer", "found", "for", "this", "question">>
MsgGenCancelled == <<"Generation", "cancelled", "by", "user">>
MsgTooShort == <<"Question", "text", "is", "empty", "or", "too", "short">>
MsgGenFailed == <<"Failed", "to", "generate", "explanation:", "timeout">>
MsgGenFailedCancelledWord == <<"Failed", "to", "generate", "explanation:", "Request", "Cancelled">>
MsgDbUpdateFailed == <<"Database", "update", "failed:", "error">>

Lower(w) == IF w = "Cancelled" THEN "cancelled" ELSE w

\* "cancelled" in str(e).lower(): a substring test, so "cancelled." matches.
ContainsCancelled(msg) ==
  \E i \in 1..Len(msg) : Lower(msg[i]) \in {"cancelled", "cancelled."}

ContainsNotFound(msg) ==
  \E i \in 1..(Len(msg) - 1) : msg[i] = "not" /\ msg[i + 1] = "found"

\* ------------------------------------------------------------------ state
VARIABLES
  task_status,       \* tasks.task_status: task id -> record
  running_tasks,     \* tasks.running_tasks: task id -> [cancelled]
  task_status_file,  \* the content of task_data/task_status.json
  next_task_id,      \* how many task identifiers uuid4 has handed out
  pc,                \* position of each task's top-level thread
  thread_target,     \* the function each task's thread runs
  exc,               \* the exception a top-level thread is handling
  futures,           \* fan-out: state of each submitted future
  yielded,           \* fan-out: futures as_completed has handed out
  cur,               \* fan-out: the future the runner is looking at
  max_workers,       \* fan-out: the pool width of the task
  rate_limit_lock,   \* holder of tasks.rate_limit_lock, <<0, 0>> when free
  facade,            \* the facade call in progress (cancel, cancel all, purge)
  seen,              \* history: the statuses each task's record has held
  events,            \* history: what each task's threads have done
  now,               \* time.time(), in half seconds
  last_api_call_time, \* tasks.last_api_call_time
  caller,            \* rate limiter: position and locals of each calling thread
  returns,           \* history: who returned from rate_limited_delay, and when
  mcq_list,          \* the argument of deduplicate_mcqs
  unique_mcqs,       \* the call of deduplicate_mcqs: whether it returned, and what
  boots,             \* how many times the process has been restarted
  store,             \* listing: the items of a task_status dict, in insertion order
  listing,           \* listing: the call of get_all_tasks, whether it returned, and what
  full_text,         \* windows: the text handed to sliding_window_chunks, a string
  window_size,       \* windows: the argument window_size
  step_size,         \* windows: the argument step_size
  chunks             \* windows: the call of sliding_window_chunks, whether it returned, and what

vars == <<task_status, running_tasks, task_status_file, next_task_id, pc,
          thread_target, exc, futures, yielded, cur, max_workers,
          rate_limit_lock, facade, seen, events, now, last_api_call_time,
          caller, returns, mcq_list, unique_mcqs, boots, store, listing,
          full_text, window_size, step_size, chunks>>

pool == <<futures, yielded, cur, max_workers>>
history == <<seen, events>>
limiter == <<now, last_api_call_time, caller, returns>>
chunker == <<full_text, window_size, step_size, chunks>>
dedup == <<mcq_list, unique_mcqs, store, listing, chunker>>
engine == <<task_status, running_tasks, task_status_file, next_task_id, pc,
            thread_target, exc, futures, yielded, cur, max_workers, facade,
            seen, events, boots>>

Terminal == {"completed", "failed", "cancelled"}

StatusOf(t) ==
  IF t \in DOMAIN task_status THEN Get(task_status[t], "status", "None") ELSE "absent"

ResultsOf(rec) == Get(rec, "results", <<>>)

\* running_tasks.get(task_id, {}).get('cancelled', False)
IsCancelled(t) == t \in DOMAIN running_tasks /\ running_tasks[t].cancelled

\* ------------------------------------------------------------ persistence
\* save_task_status: the reduced projection of every record.
Projection(ts) ==
  [t \in DOMAIN ts |->
     [status |-> Get(ts[t], "status", "None"),
      progress |-> Get(ts[t], "progress", "None"),
      total |-> Get(ts[t], "total", 0),
      error |-> Get(ts[t], "error", <<"None">>),
      started_at |-> Get(ts[t], "started_at", "None"),
      completed_at |-> Get(ts[t], "completed_at", "None"),
      task_type |-> Get(ts[t], "task_type", "None"),
      task_params |-> Get(ts[t], "task_params", "None"),
      results_count |-> Len(ResultsOf(ts[t]))]]

\* ---------------------------------------------------------------- history
Note(t, e) == events' = [events EXCEPT ![t] = @ \cup e]

See(t, s) == seen' = [seen EXCEPT ![t] = @ \cup {s}]

\* ---------------------------------------------------------------- initial
Idle ==
  [op |-> "idle", pc |-> "-", t |-> 0, keys |-> {}, rest |-> {}, count |-> 0,
   ret |-> "-", mark |-> {}]

NoHolder == <<0, 0>>

EngineInit ==
  /\ task_status = EmptyDict
  /\ running_tasks = EmptyDict
  /\ task_status_file = EmptyDict
  /\ next_task_id = 0
  /\ pc = [t \in TaskIds |-> "unborn"]
  /\ thread_target = [t \in TaskIds |-> "none"]
  /\ exc = [t \in TaskIds |-> NoError]
  /\ futures = [t \in TaskIds |-> EmptyDict]
  /\ yielded = [t \in TaskIds |-> {}]
  /\ cur = [t \in TaskIds |-> 0]
  /\ max_workers = [t \in TaskIds |-> 0]
  /\ rate_limit_lock = NoHolder
  /\ facade = Idle
  /\ seen = [t \in TaskIds |-> {}]
  /\ events = [t \in TaskIds |-> {}]
  /\ boots = 0

\* The limiter's clock and the deduplication helper at rest: the task engine
\* keeps the limiter's lock and leaves its timing to SpecRate.
LimiterAtRest ==
  /\ now = 0
  /\ last_api_call_time = 0
  /\ caller = EmptyDict
  /\ returns = <<>>

NotCalled == [returned |-> FALSE, value |-> <<>>]

ChunkerAtRest ==
  /\ full_text = <<>>
  /\ window_size = 1
  /\ step_size = 1
  /\ chunks = NotCalled

DedupAtRest ==
  /\ mcq_list = <<>>
  /\ unique_mcqs = NotCalled
  /\ store = <<>>
  /\ listing = NotCalled
  /\ ChunkerAtRest

Init ==
  /\ EngineInit
  /\ LimiterAtRest
  /\ DedupAtRest

\* ------------------------------------------------------------ step helpers
Goto(t, l) == pc' = [pc EXCEPT ![t] = l]

At(t, l) == pc[t] = l

Raise(t, msg, handler) ==
  /\ pc' = [pc EXCEPT ![t] = handler]
  /\ exc' = [exc EXCEPT ![t] = msg]

\* task_status[task_id][key] = val, for each key of upd
Update(t, upd) ==
  [task_status EXCEPT ![t] =
     [k \in DOMAIN @ \cup DOMAIN upd |-> IF k \in DOMAIN upd THEN upd[k] ELSE @[k]]]

\* A store to keys of task_status[t]; a KeyError when the record is gone.
Store(t, upd, next, handler) ==
  IF t \in DOMAIN task_status
    THEN /\ task_status' = Update(t, upd)
         /\ Goto(t, next)
         /\ exc' = exc
    ELSE /\ task_status' = task_status
         /\ Raise(t, <<"KeyError">>, handler)

\* running_tasks.pop(task_id, None), the last statement of a thread
PopAndReturn(t) ==
  /\ running_tasks' = Pop(running_tasks, t)
  /\ Goto(t, "done")
  /\ exc' = [exc EXCEPT ![t] = NoError]

\* -------------------------------------------------- facade: starting a task
\* The route layer starts a task when the thread of the task before it has
\* ended: the threads of two tasks share only the two dicts, keyed by task,
\* and the rate limiter, whose pacing SpecRate checks for concurrent workers.
Ended == {"unborn", "done", "start_failed"}

\* Lines 150-162, 284-300, 590-602: the identifier, the record, its snapshot.
CreateRecord(t, target, record) ==
  /\ t = next_task_id + 1
  /\ \A u \in TaskIds : pc[u] \in Ended
  /\ next_task_id' = t
  /\ task_status' = Put(task_status, t, record)
  /\ task_status_file' = Projection(task_status')
  /\ thread_target' = [thread_target EXCEPT ![t] = target]
  /\ Goto(t, "created")
  /\ See(t, record.status)
  /\ UNCHANGED <<running_tasks, exc, pool, rate_limit_lock, facade, events,
                    limiter, dedup, boots>>

\* Lines 164-166, 302-307, 609-611: the registry entry, then thread.start().
RegisterAndStart(t, first) ==
  /\ At(t, "created")
  /\ running_tasks' = Put(running_tasks, t, [cancelled |-> FALSE])
  /\ Goto(t, first)
  /\ UNCHANGED <<task_status, task_status_file, next_task_id, thread_target, exc,
                 pool, rate_limit_lock, facade, history,
                    limiter, dedup, boots>>

start_single_question_explanation_task(t) ==
  \/ CreateRecord(t, "single",
       [status |-> "queued", progress |-> 0, results |-> <<>>, error |-> NoError,
        started_at |-> "t0", task_type |-> "single_question_explanation",
        task_params |-> "question_id"])
  \/ /\ thread_target[t] = "single"
     /\ RegisterAndStart(t, "s172")

\* ------------------------------------------------------ explanation generator
\* generate_board_explanation as run by a thread at label l: the next label
\* ("return" and "raise" leave the generator) and the exception raised.
GenOutcomes == {"ok", "short", "fail", "fail_cancelled_word"}

generate_board_explanation(l, flag, outcome) ==
  CASE l = "g338" ->
         IF outcome = "short" THEN [pc |-> "raise", exc |-> MsgTooShort]
         ELSE [pc |-> "g355", exc |-> NoError]
    [] l = "g355" ->
         IF flag THEN [pc |-> "raise", exc |-> MsgGenCancelled]
         ELSE [pc |-> "g361", exc |-> NoError]
    [] l = "g361" ->
         IF flag THEN [pc |-> "raise", exc |-> MsgGenCancelled]
         ELSE [pc |-> "g367", exc |-> NoError]
    [] l = "g367" ->
         IF flag THEN [pc |-> "raise", exc |-> MsgGenCancelled]
         ELSE [pc |-> "g461", exc |-> NoError]
    [] l = "g461" ->
         IF outcome = "fail" THEN [pc |-> "raise", exc |-> MsgGenFailed]
         ELSE IF outcome = "fail_cancelled_word"
           THEN [pc |-> "raise", exc |-> MsgGenFailedCancelledWord]
           ELSE [pc |-> "return", exc |-> NoError]

GenLabels == {"g338", "g355", "g361", "g367", "g461"}
GenProbes == {"g355", "g361", "g367"}

\* What a generator step adds to the history of the task.
GenEvents(l, flag, who) ==
  (IF l \in GenProbes /\ flag THEN {who} ELSE {})
    \cup (IF l = "g461" THEN {"gen_call"} ELSE {})

\* ---------------------------------------------------------- single runner
SeeIfStored(t, s) ==
  seen' = IF t \in DOMAIN task_status THEN [seen EXCEPT ![t] = @ \cup {s}] ELSE seen

ThreadFrame == UNCHANGED <<next_task_id, thread_target, facade, limiter, dedup, boots>>

\* Lines 176-196: what the three checks on the query results raise.
QueryErrorNoRowsUnchecked(outcome) ==
  CASE outcome = "noopts" -> MsgNoOptions
    [] outcome = "nocorrect" -> MsgNoCorrect
    [] OTHER -> NoError

QueryError(outcome) ==
  CASE outcome = "notfound" -> MsgQuestionNotFound
    [] outcome = "noopts" -> MsgNoOptions
    [] outcome = "nocorrect" -> MsgNoCorrect
    [] OTHER -> NoError

\* process_single_question_explanation, one disjunct per statement that
\* reads or writes shared state; labels are line numbers of tasks.py.
process_single_question_explanation(t) ==
  \/ /\ At(t, "s172")
     /\ Store(t, [status |-> "processing"], "s176", "s254")
     /\ SeeIfStored(t, "processing")
     /\ ThreadFrame
     /\ UNCHANGED <<running_tasks, task_status_file, pool, rate_limit_lock, events>>
  \/ /\ At(t, "s176")
     /\ \E outcome \in {"ok", "notfound", "noopts", "nocorrect"} :
          /\ IF QueryError(outcome) = NoError THEN Goto(t, "s199") /\ exc' = exc
             ELSE Raise(t, QueryError(outcome), "s254")
          /\ Note(t, IF outcome = "notfound" THEN {"q_notfound"} ELSE {})
     /\ ThreadFrame
     /\ UNCHANGED <<task_status, running_tasks, task_status_file, pool,
                    rate_limit_lock, seen>>
  \/ /\ At(t, "s199")
     /\ IF IsCancelled(t)
          THEN Goto(t, "s200") /\ Note(t, {"obs_top"})
          ELSE Goto(t, "g338") /\ events' = events
     /\ ThreadFrame
     /\ UNCHANGED <<task_status, running_tasks, task_status_file, exc, pool,
                    rate_limit_lock, seen>>
  \/ /\ At(t, "s200")
     /\ Store(t, [status |-> "cancelled"], "s201", "s254")
     /\ SeeIfStored(t, "cancelled")
     /\ ThreadFrame
     /\ UNCHANGED <<running_tasks, task_status_file, pool, rate_limit_lock, events>>
  \/ /\ At(t, "s201")
     /\ Store(t, [error |-> MsgTaskWasCancelled], "s202", "s254")
     /\ ThreadFrame
     /\ UNCHANGED <<running_tasks, task_status_file, pool, rate_limit_lock, history>>
  \/ /\ pc[t] \in {"s202", "s219", "s251", "s264"}
     /\ PopAndReturn(t)
     /\ ThreadFrame
     /\ UNCHANGED <<task_status, task_status_file, pool, rate_limit_lock, history>>
  \/ /\ pc[t] \in GenLabels
     /\ thread_target[t] = "single"
     /\ \E outcome \in GenOutcomes :
          LET r == generate_board_explanation(pc[t], IsCancelled(t), outcome) IN
            /\ IF r.pc = "raise" THEN Raise(t, r.exc, "s254")
               ELSE IF r.pc = "return" THEN Goto(t, "s216") /\ exc' = exc
               ELSE Goto(t, r.pc) /\ exc' = exc
            /\ Note(t, GenEvents(pc[t], IsCancelled(t), "obs_top"))
     /\ ThreadFrame
     /\ UNCHANGED <<task_status, running_tasks, task_status_file, pool,
                    rate_limit_lock, seen>>
  \/ /\ At(t, "s216")
     /\ IF IsCancelled(t)
          THEN Goto(t, "s217") /\ Note(t, {"obs_top"})
          ELSE Goto(t, "s224") /\ events' = events
     /\ ThreadFrame
     /\ UNCHANGED <<task_status, running_tasks, task_status_file, exc, pool,
                    rate_limit_lock, seen>>
  \/ /\ At(t, "s217")
     /\ Store(t, [status |-> "cancelled"], "s218", "s254")
     /\ SeeIfStored(t, "cancelled")
     /\ ThreadFrame
     /\ UNCHANGED <<running_tasks, task_status_file, pool, rate_limit_lock, events>>
  \/ /\ At(t, "s218")
     /\ Store(t, [error |-> MsgCancelledAfterGen], "s219", "s254")
     /\ ThreadFrame
     /\ UNCHANGED <<running_tasks, task_status_file, pool, rate_limit_lock, history>>
  \/ /\ At(t, "s224")
     /\ \E outcome \in {"ok", "error"} :
          IF outcome = "ok" THEN Goto(t, "s246") /\ exc' = exc
          ELSE Raise(t, MsgDbUpdateFailed, "s254")
     /\ Note(t, {"db_update"})
     /\ ThreadFrame
     /\ UNCHANGED <<task_status, running_tasks, task_status_file, pool,
                    rate_limit_lock, seen>>
  \/ /\ At(t, "s246")
     /\ Store(t, [results |-> Append(ResultsOf(task_status[t]),
                                     [index |-> 1, error |-> FALSE])], "s247", "s254")
     /\ ThreadFrame
     /\ UNCHANGED <<running_tasks, task_status_file, pool, rate_limit_lock, history>>
  \/ /\ At(t, "s247")
     /\ Store(t, [progress |-> 1], "s248", "s254")
     /\ ThreadFrame
     /\ UNCHANGED <<running_tasks, task_status_file, pool, rate_limit_lock, history>>
  \/ /\ At(t, "s248")
     /\ Store(t, [status |-> "completed"], "s249", "s254")
     /\ SeeIfStored(t, "completed")
     /\ ThreadFrame
     /\ UNCHANGED <<running_tasks, task_status_file, pool, rate_limit_lock, events>>
  \/ /\ At(t, "s249")
     /\ Store(t, [latest_result |-> [index |-> 1, error |-> FALSE]], "s251", "s254")
     /\ ThreadFrame
     /\ UNCHANGED <<running_tasks, task_status_file, pool, rate_limit_lock, history>>
  \/ /\ At(t, "s254")
     /\ task_status' = Put(task_status, t,
          [status |-> IF ContainsCancelled(exc[t]) THEN "cancelled" ELSE "failed",
           error |-> exc[t]])
     /\ See(t, IF ContainsCancelled(exc[t]) THEN "cancelled" ELSE "failed")
     /\ Goto(t, "s264")
     /\ ThreadFrame
     /\ UNCHANGED <<running_tasks, task_status_file, exc, pool, rate_limit_lock, events>>

\* ---------------------------------------------------------- fan-out runner
MsgSubjectNotFound == <<"Subject", "not", "found">>
MsgTopicNotFound == <<"Topic", "not", "found">>
MsgNoQuestions == <<"No", "questions", "found">>
MsgAllExplained == <<"All", "questions", "already", "explained.">>

start_explanation_task(t) ==
  \/ CreateRecord(t, "fanout",
       [status |-> "queued", progress |-> 0, total |-> 0, results |-> <<>>,
        error |-> NoError, started_at |-> "t0",
        task_type |-> "explanation_generation", task_params |-> "selector"])
  \/ /\ thread_target[t] = "fanout"
     /\ At(t, "created")
     /\ running_tasks' = Put(running_tasks, t, [cancelled |-> FALSE])
     /\ Goto(t, "f315")
     /\ \E w \in 1..MaxWorkers : max_workers' = [max_workers EXCEPT ![t] = w]
     /\ UNCHANGED <<task_status, task_status_file, next_task_id, thread_target, exc,
                    futures, yielded, cur, rate_limit_lock, facade, history,
                    limiter, dedup, boots>>

Finished == {"ok", "err", "cancelled"}
NotStarted == {"question", "pending"}

Running(t) == {i \in DOMAIN futures[t] : futures[t][i] \notin Finished \cup NotStarted}

Pending(t) == {i \in DOMAIN futures[t] : futures[t][i] = "pending"}

\* Line 398: as_completed has handed out every future.
ExhaustedAfterFirst(t) == yielded[t] # {}

Exhausted(t) == yielded[t] = DOMAIN futures[t]

\* Lines 407-409: the runner marks the task cancelled by two stores to the
\* keys of the record, which keep its other keys.
MarkCancelledReplacing(t) ==
  /\ task_status' = Put(task_status, t,
       [status |-> "cancelled", error |-> MsgTaskWasCancelled])
  /\ Goto(t, "f410")
  /\ exc' = exc

MarkCancelled(t) ==
  Store(t, [status |-> "cancelled", error |-> MsgTaskWasCancelled], "f410", "f451")

\* Line 381, len(questions): one future is submitted for each question.
len_questionsLessOne(t) == Cardinality(DOMAIN futures[t]) - 1

len_questions(t) == Cardinality(DOMAIN futures[t])

\* The statements of the runners that are inside a "with status_lock:" block
\* (lines 314, 363, 380, 407, 417, 433, 443, 451), by their labels.  No other
\* statement of tasks.py or app.py takes status_lock.
WithStatusLock == {"f315", "f364", "f381", "f408", "f414", "f444", "f451"}

\* Line 405, f.cancel(): a future that has not started is cancelled, a
\* running or finished one is left as it is.
f_cancelNothing(state) == state

f_cancel(state) == IF state = "pending" THEN "cancelled" ELSE state

\* Lines 426-435: the exception of future.result() is caught inside the loop,
\* the error entry appended, and the loop goes on.
RecordItemResultThrottled(t, results, entry) ==
  /\ rate_limit_lock = NoHolder
  /\ Store(t, [results |-> results, progress |-> Len(results),
               status |-> "processing", latest_result |-> entry], "f398", "f451")

\* Lines 417-421: the result of an item is recorded under status_lock; the
\* block takes no other lock.
RecordItemResult(t, results, entry) ==
  Store(t, [results |-> results, progress |-> Len(results),
            status |-> "processing", latest_result |-> entry], "f398", "f451")

RecordItemErrorUncaught(t, results) ==
  /\ task_status' = task_status
  /\ Raise(t, MsgGenFailed, "f451")

RecordItemError(t, results) ==
  Store(t, [results |-> results, progress |-> Len(results)], "f398", "f451")

\* process_question_explanation: the top-level thread of a fan-out task
process_question_explanation(t) ==
  \/ /\ At(t, "f315")
     /\ Store(t, [status |-> "processing"], "f320", "f451")
     /\ SeeIfStored(t, "processing")
     /\ task_status_file' = Projection(task_status')
     /\ ThreadFrame
     /\ UNCHANGED <<running_tasks, pool, rate_limit_lock, events>>
  \/ /\ At(t, "f320")
     /\ \E outcome \in {"nosubject", "notopic", "noids", "noquestions", "ok"} :
          /\ Note(t, IF outcome \in {"noids", "noquestions"} THEN {"zero_items"} ELSE {})
          /\ CASE outcome = "nosubject" ->
                    Raise(t, MsgSubjectNotFound, "f451") /\ futures' = futures
               [] outcome = "notopic" ->
                    Raise(t, MsgTopicNotFound, "f451") /\ futures' = futures
               [] outcome = "noids" ->
                    Raise(t, MsgNoQuestions, "f451") /\ futures' = futures
               [] outcome = "noquestions" ->
                    Goto(t, "f364") /\ exc' = exc /\ futures' = futures
               [] OTHER ->
                    /\ Goto(t, "f381")
                    /\ exc' = exc
                    /\ \E n \in 1..MaxQuestions :
                         futures' = [futures EXCEPT ![t] = [i \in 1..n |-> "question"]]
     /\ ThreadFrame
     /\ UNCHANGED <<task_status, running_tasks, task_status_file, yielded, cur,
                    max_workers, rate_limit_lock, seen>>
  \/ /\ At(t, "f364")
     /\ task_status' = Put(task_status, t,
          [status |-> "completed", progress |-> 0, total |-> 0, results |-> <<>>,
           error |-> MsgAllExplained])
     /\ See(t, "completed")
     /\ Goto(t, "done")
     /\ ThreadFrame
     /\ UNCHANGED <<running_tasks, task_status_file, exc, pool, rate_limit_lock, events>>
  \/ /\ At(t, "f381")
     /\ Store(t, [total |-> len_questions(t)], "f388", "f451")
     /\ task_status_file' = Projection(task_status')
     /\ ThreadFrame
     /\ UNCHANGED <<running_tasks, pool, rate_limit_lock, history>>
  \/ /\ At(t, "f388")
     /\ futures' = [futures EXCEPT ![t] = [i \in DOMAIN @ |-> "pending"]]
     /\ Goto(t, "f398")
     /\ ThreadFrame
     /\ UNCHANGED <<task_status, running_tasks, task_status_file, exc, yielded, cur,
                    max_workers, rate_limit_lock, history>>
  \/ /\ At(t, "f398")
     /\ IF Exhausted(t)
          THEN Goto(t, "f444") /\ UNCHANGED <<yielded, cur>>
          ELSE \E i \in DOMAIN futures[t] \ yielded[t] :
                 /\ futures[t][i] \in Finished
                 /\ yielded' = [yielded EXCEPT ![t] = @ \cup {i}]
                 /\ cur' = [cur EXCEPT ![t] = i]
                 /\ Goto(t, "f402")
     /\ ThreadFrame
     /\ UNCHANGED <<task_status, running_tasks, task_status_file, exc, futures,
                    max_workers, rate_limit_lock, history>>
  \/ /\ At(t, "f402")
     /\ IF IsCancelled(t)
          THEN /\ Goto(t, "f404")
               /\ cur' = [cur EXCEPT ![t] = 1]
               /\ Note(t, {"obs_top"})
          ELSE Goto(t, "f414") /\ UNCHANGED <<cur, events>>
     /\ ThreadFrame
     /\ UNCHANGED <<task_status, running_tasks, task_status_file, exc, futures,
                    yielded, max_workers, rate_limit_lock, seen>>
  \/ /\ At(t, "f404")
     /\ IF cur[t] \in DOMAIN futures[t]
          THEN /\ futures' = [futures EXCEPT ![t][cur[t]] = f_cancel(@)]
               /\ cur' = [cur EXCEPT ![t] = @ + 1]
               /\ pc' = pc
          ELSE /\ Goto(t, "f408")
               /\ cur' = [cur EXCEPT ![t] = 0]
               /\ futures' = futures
     /\ ThreadFrame
     /\ UNCHANGED <<task_status, running_tasks, task_status_file, exc, yielded,
                    max_workers, rate_limit_lock, history>>
  \/ /\ At(t, "f408")
     /\ MarkCancelled(t)
     /\ SeeIfStored(t, "cancelled")
     /\ ThreadFrame
     /\ UNCHANGED <<running_tasks, task_status_file, pool, rate_limit_lock, events>>
  \/ /\ At(t, "f410")
     /\ running_tasks' = Pop(running_tasks, t)
     /\ Goto(t, "f411")
     /\ ThreadFrame
     /\ UNCHANGED <<task_status, task_status_file, exc, pool, rate_limit_lock, history>>
  \/ /\ At(t, "f411")
     /\ Running(t) = {}
     /\ Goto(t, "done")
     /\ ThreadFrame
     /\ UNCHANGED <<task_status, running_tasks, task_status_file, exc, pool,
                    rate_limit_lock, history>>
  \/ /\ At(t, "f414")
     /\ LET entry == [index |-> cur[t], error |-> futures[t][cur[t]] = "err"]
            results == Append(ResultsOf(task_status[t]), entry)
        IN IF futures[t][cur[t]] = "ok"
             THEN /\ RecordItemResult(t, results, entry)
                  /\ SeeIfStored(t, "processing")
                  /\ task_status_file' = Projection(task_status')
             ELSE /\ RecordItemError(t, results)
                  /\ UNCHANGED <<seen, task_status_file>>
     /\ ThreadFrame
     /\ UNCHANGED <<running_tasks, pool, rate_limit_lock, events>>
  \/ /\ At(t, "f444")
     /\ Store(t, [status |-> "completed", completed_at |-> "t1"], "f447", "f451")
     /\ SeeIfStored(t, "completed")
     /\ task_status_file' = Projection(task_status')
     /\ ThreadFrame
     /\ UNCHANGED <<running_tasks, pool, rate_limit_lock, events>>
  \/ /\ pc[t] \in {"f447", "f462"}
     /\ PopAndReturn(t)
     /\ ThreadFrame
     /\ UNCHANGED <<task_status, task_status_file, pool, rate_limit_lock, history>>
  \/ /\ At(t, "f451")
     /\ task_status' = Put(task_status, t,
          [status |-> IF ContainsCancelled(exc[t]) THEN "cancelled" ELSE "failed",
           error |-> exc[t]])
     /\ See(t, IF ContainsCancelled(exc[t]) THEN "cancelled" ELSE "failed")
     /\ Goto(t, "f462")
     /\ ThreadFrame
     /\ UNCHANGED <<running_tasks, task_status_file, exc, pool, rate_limit_lock, events>>

\* The state a future is left in by one step of a pool thread at label l.
WorkerOutcomes == {"ok", "noopts", "dberror"}

process_single_question_step(l, flag, outcome, gen) ==
  CASE l = "w470" -> IF flag \/ outcome = "noopts" THEN "err" ELSE "w493"
    [] l = "w493" -> IF flag THEN "err" ELSE "w496"
    [] l = "w281" -> "g338"
    [] l \in GenLabels ->
         LET r == generate_board_explanation(l, flag, gen)
         IN IF r.pc = "raise" THEN "err" ELSE IF r.pc = "return" THEN "w511" ELSE r.pc
    [] l = "w511" -> IF flag THEN "err" ELSE "w516"
    [] l = "w516" -> IF outcome = "dberror" THEN "err" ELSE "w537"
    [] l = "w537" -> "ok"

WorkerProbes == {"w470", "w493", "w511"}

\* process_single_question(task_id, idx, q, options) on a thread of the pool
process_single_question(t, i) ==
  \/ /\ i \in Pending(t)
     /\ \A j \in Pending(t) : i <= j
     /\ Cardinality(Running(t)) < max_workers[t]
     /\ futures' = [futures EXCEPT ![t][i] = "w470"]
     /\ UNCHANGED <<task_status, running_tasks, task_status_file, next_task_id, pc,
                    thread_target, exc, yielded, cur, max_workers, rate_limit_lock,
                    facade, history,
                    limiter, dedup, boots>>
  \/ /\ i \in DOMAIN futures[t]
     /\ futures[t][i] = "w496"
     /\ rate_limit_lock = NoHolder
     /\ rate_limit_lock' = <<t, i>>
     /\ futures' = [futures EXCEPT ![t][i] = "w281"]
     /\ UNCHANGED <<task_status, running_tasks, task_status_file, next_task_id, pc,
                    thread_target, exc, yielded, cur, max_workers, facade, history,
                    limiter, dedup, boots>>
  \/ /\ i \in DOMAIN futures[t]
     /\ futures[t][i] \in {"w470", "w493", "w281", "w511", "w516", "w537"} \cup GenLabels
     /\ \E outcome \in WorkerOutcomes, gen \in GenOutcomes :
          futures' = [futures EXCEPT ![t][i] =
                        process_single_question_step(@, IsCancelled(t), outcome, gen)]
     /\ rate_limit_lock' = IF futures[t][i] = "w281" THEN NoHolder ELSE rate_limit_lock
     /\ Note(t, (IF futures[t][i] \in WorkerProbes /\ IsCancelled(t)
                   THEN {"obs_pool"} ELSE {})
                \cup (IF futures[t][i] = "w516" THEN {"db_update"} ELSE {})
                \cup (IF futures[t][i] = "w281" THEN {"throttle"} ELSE {})
                \cup (IF futures[t][i] \in GenLabels
                        THEN GenEvents(futures[t][i], IsCancelled(t), "obs_pool")
                        ELSE {}))
     /\ UNCHANGED <<task_status, running_tasks, task_status_file, next_task_id, pc,
                    thread_target, exc, yielded, cur, max_workers, facade, seen,
                    limiter, dedup, boots>>

\* ---------------------------------------------------------- pipeline runner
MsgExtractFailed == <<"cannot", "open", "file">>
MsgIndexError == <<"list", "index", "out", "of", "range">>
MsgNotRelevant == <<"PDF", "is", "not", "clinically", "relevant">>
MsgTypeError == <<"generate_mcqs_with_assistant()", "takes", "from", "2", "to", "4",
                  "positional", "arguments", "but", "5", "were", "given">>

start_mcq_generation_task(t) ==
  \/ CreateRecord(t, "pipeline",
       [status |-> "queued", progress |-> "Queued", download_url |-> "None",
        error |-> NoError, started_at |-> "t0", task_type |-> "mcq_generation",
        task_params |-> "filename"])
  \/ /\ thread_target[t] = "pipeline"
     /\ RegisterAndStart(t, "m620")
  \/ /\ thread_target[t] = "pipeline"
     /\ At(t, "created")
     /\ Goto(t, "start_failed")
     /\ UNCHANGED <<task_status, running_tasks, task_status_file, next_task_id,
                    thread_target, exc, pool, rate_limit_lock, facade, history,
                    limiter, dedup, boots>>

\* process_mcqs_task: the top-level thread of a pipeline task
process_mcqs_task(t) ==
  \/ /\ At(t, "m620")
     /\ Store(t, [status |-> "processing"], "m621", "m688")
     /\ SeeIfStored(t, "processing")
     /\ ThreadFrame
     /\ UNCHANGED <<running_tasks, task_status_file, pool, rate_limit_lock, events>>
  \/ /\ At(t, "m621")
     /\ Store(t, [progress |-> "Extracting text..."], "m624", "m688")
     /\ ThreadFrame
     /\ UNCHANGED <<running_tasks, task_status_file, pool, rate_limit_lock, history>>
  \/ /\ At(t, "m624")
     /\ \E outcome \in {"ok", "unreadable", "nochunks"} :
          CASE outcome = "unreadable" -> Raise(t, MsgExtractFailed, "m688")
            [] outcome = "nochunks" -> Raise(t, MsgIndexError, "m688")
            [] OTHER -> Goto(t, "m630") /\ exc' = exc
     /\ ThreadFrame
     /\ UNCHANGED <<task_status, running_tasks, task_status_file, pool,
                    rate_limit_lock, history>>
  \/ /\ At(t, "m630")
     /\ \E is_relevant \in BOOLEAN :
          IF is_relevant
            THEN Goto(t, "m638") /\ Note(t, {"ai_relevance"})
            ELSE Goto(t, "m632") /\ Note(t, {"ai_relevance", "rel_false"})
     /\ ThreadFrame
     /\ UNCHANGED <<task_status, running_tasks, task_status_file, exc, pool,
                    rate_limit_lock, seen>>
  \/ /\ At(t, "m632")
     /\ Store(t, [status |-> "error"], "m633", "m688")
     /\ SeeIfStored(t, "error")
     /\ ThreadFrame
     /\ UNCHANGED <<running_tasks, task_status_file, pool, rate_limit_lock, events>>
  \/ /\ At(t, "m633")
     /\ Store(t, [error |-> MsgNotRelevant], "done", "m688")
     /\ ThreadFrame
     /\ UNCHANGED <<running_tasks, task_status_file, pool, rate_limit_lock, history>>
  \/ /\ At(t, "m638")
     /\ IF IsCancelled(t)
          THEN Goto(t, "m639") /\ Note(t, {"obs_top"})
          ELSE Goto(t, "m644") /\ events' = events
     /\ ThreadFrame
     /\ UNCHANGED <<task_status, running_tasks, task_status_file, exc, pool,
                    rate_limit_lock, seen>>
  \/ /\ At(t, "m644")
     /\ Store(t, [progress |-> "Processing chunk 1"], "m647", "m688")
     /\ ThreadFrame
     /\ UNCHANGED <<running_tasks, task_status_file, pool, rate_limit_lock, history>>
  \/ /\ At(t, "m639")
     /\ Store(t, [status |-> "cancelled"], "m640", "m688")
     /\ SeeIfStored(t, "cancelled")
     /\ ThreadFrame
     /\ UNCHANGED <<running_tasks, task_status_file, pool, rate_limit_lock, events>>
  \/ /\ At(t, "m640")
     /\ Store(t, [error |-> MsgTaskWasCancelled], "m641", "m688")
     /\ ThreadFrame
     /\ UNCHANGED <<running_tasks, task_status_file, pool, rate_limit_lock, history>>
  \/ /\ pc[t] \in {"m641", "m698"}
     /\ PopAndReturn(t)
     /\ ThreadFrame
     /\ UNCHANGED <<task_status, task_status_file, pool, rate_limit_lock, history>>
  \/ /\ At(t, "m647")
     /\ rate_limit_lock = NoHolder
     /\ rate_limit_lock' = <<t, 0>>
     /\ Goto(t, "m281")
     /\ ThreadFrame
     /\ UNCHANGED <<task_status, running_tasks, task_status_file, exc, pool, history>>
  \/ /\ At(t, "m281")
     /\ rate_limit_lock' = NoHolder
     /\ Goto(t, "m650")
     /\ Note(t, {"throttle"})
     /\ ThreadFrame
     /\ UNCHANGED <<task_status, running_tasks, task_status_file, exc, pool, seen>>
  \/ /\ At(t, "m650")
     /\ Raise(t, MsgTypeError, "m688")
     /\ ThreadFrame
     /\ UNCHANGED <<task_status, running_tasks, task_status_file, pool,
                    rate_limit_lock, history>>
  \/ /\ At(t, "m688")
     /\ task_status' = Put(task_status, t,
          [status |-> IF ContainsCancelled(exc[t]) THEN "cancelled" ELSE "failed",
           error |-> exc[t]])
     /\ See(t, IF ContainsCancelled(exc[t]) THEN "cancelled" ELSE "failed")
     /\ Goto(t, "m698")
     /\ ThreadFrame
     /\ UNCHANGED <<running_tasks, task_status_file, exc, pool, rate_limit_lock, events>>

\* ------------------------------------------- facade: cancel, cancel all, purge
FacadeFrame ==
  UNCHANGED <<next_task_id, pc, thread_target, exc, pool, rate_limit_lock, limiter, dedup, boots>>

\* Where a call of cancel_task goes when it returns result: to the caller of
\* the facade, or back into the loop of cancel_all_tasks (lines 130-132).
AfterCancel(f, result) ==
  IF f.op = "cancel_task" \/ result = "raise"
    THEN [f EXCEPT !.pc = "ret", !.ret = result, !.mark = {}]
    ELSE [f EXCEPT !.pc = "a130", !.mark = {},
                   !.count = @ + (IF result = "True" THEN 1 ELSE 0)]

\* A fan-out task in mid-run: processing, total set, an item not yet handed
\* out by as_completed.
MidRun(t) ==
  /\ thread_target[t] = "fanout"
  /\ StatusOf(t) = "processing"
  /\ Get(task_status[t], "total", 0) >= 1
  /\ yielded[t] # DOMAIN futures[t]

\* History: what the task was doing when cancel_task set its flag; the call
\* adds it to the task's events when it returns True.
CancelMark(t) ==
  (IF StatusOf(t) = "processing" THEN {"cancel_processing"} ELSE {})
    \cup (IF MidRun(t) THEN {"cancel_midrun"} ELSE {})
    \cup (IF thread_target[t] = "single" /\ pc[t] = "s199"
            THEN {"cancel_before_gen"} ELSE {})
    \cup (IF thread_target[t] = "single" /\ pc[t] \in GenLabels
            THEN {"cancel_in_gen"} ELSE {})

\* cancel_task(task_id), lines 118-125, statement by statement
cancel_task ==
  \/ /\ facade.op = "idle"
     /\ \E t \in TaskIds :
          facade' = [Idle EXCEPT !.op = "cancel_task", !.pc = "c119", !.t = t]
     /\ FacadeFrame
     /\ UNCHANGED <<task_status, running_tasks, task_status_file, history>>
  \/ /\ facade.pc = "c119"
     /\ facade' = IF facade.t \in DOMAIN running_tasks
                    THEN [facade EXCEPT !.pc = "c121"]
                    ELSE AfterCancel(facade, "False")
     /\ FacadeFrame
     /\ UNCHANGED <<task_status, running_tasks, task_status_file, history>>
  \/ /\ facade.pc = "c121"
     /\ IF facade.t \in DOMAIN running_tasks
          THEN /\ running_tasks' = [running_tasks EXCEPT ![facade.t].cancelled = TRUE]
               /\ facade' = [facade EXCEPT !.pc = "c122", !.mark = CancelMark(facade.t)]
               /\ Note(facade.t, {"cancel_req"})
          ELSE /\ running_tasks' = running_tasks
               /\ facade' = AfterCancel(facade, "raise")
               /\ events' = events
     /\ FacadeFrame
     /\ UNCHANGED <<task_status, task_status_file, seen>>
  \/ /\ facade.pc = "c122"
     /\ IF facade.t \in DOMAIN task_status
          THEN /\ task_status' = Update(facade.t, [status |-> "cancelling",
                                                  error |-> MsgCancelRequested])
               /\ See(facade.t, "cancelling")
               /\ Note(facade.t, facade.mark)
               /\ facade' = AfterCancel(facade, "True")
          ELSE /\ task_status' = task_status
               /\ UNCHANGED history
               /\ facade' = AfterCancel(facade, "raise")
     /\ FacadeFrame
     /\ UNCHANGED <<running_tasks, task_status_file>>

\* cancel_all_tasks(), lines 127-133
cancel_all_tasks ==
  \/ /\ facade.op = "idle"
     /\ facade' = [Idle EXCEPT !.op = "cancel_all_tasks", !.pc = "a130",
                               !.keys = DOMAIN running_tasks,
                               !.rest = DOMAIN running_tasks]
     /\ FacadeFrame
     /\ UNCHANGED <<task_status, running_tasks, task_status_file, history>>
  \/ /\ facade.pc = "a130"
     /\ IF facade.rest = {}
          THEN facade' = [facade EXCEPT !.pc = "ret", !.ret = "count"]
          ELSE \E t \in facade.rest :
                 facade' = [facade EXCEPT !.pc = "c119", !.t = t, !.rest = @ \ {t}]
     /\ FacadeFrame
     /\ UNCHANGED <<task_status, running_tasks, task_status_file, history>>

\* clear_completed_tasks() of app.py, lines 487-513
clear_completed_tasks ==
  \/ /\ facade.op = "idle"
     /\ facade' = [Idle EXCEPT !.op = "clear_completed_tasks", !.pc = "p494"]
     /\ FacadeFrame
     /\ UNCHANGED <<task_status, running_tasks, task_status_file, history>>
  \/ /\ facade.pc = "p494"
     /\ facade' = [facade EXCEPT !.pc = "p498",
                     !.rest = {t \in DOMAIN task_status : StatusOf(t) \in Terminal}]
     /\ FacadeFrame
     /\ UNCHANGED <<task_status, running_tasks, task_status_file, history>>
  \/ /\ facade.pc = "p498"
     /\ task_status' = [t \in DOMAIN task_status \ facade.rest |-> task_status[t]]
     /\ task_status_file' = Projection(task_status')
     /\ facade' = [facade EXCEPT !.pc = "ret", !.ret = "count",
                                 !.count = Cardinality(facade.rest), !.rest = {}]
     /\ FacadeFrame
     /\ UNCHANGED <<running_tasks, history>>

\* ------------------------------------------------- restart and task listing
MaxRestarts == 1

\* load_task_status(), lines 60-84, run while the name task_status is bound
\* (defined) or not: restoring into an unbound name is a NameError, which
\* line 83 swallows, and nothing is restored.
load_task_status(defined, ts, file) ==
  IF defined
    THEN [t \in DOMAIN ts \cup DOMAIN file |->
            IF t \in DOMAIN file
              THEN [status |-> file[t].status,
                    progress |-> file[t].progress,
                    total |-> file[t].total,
                    error |-> file[t].error,
                    started_at |-> file[t].started_at,
                    completed_at |-> file[t].completed_at,
                    task_type |-> file[t].task_type,
                    task_params |-> file[t].task_params,
                    results |-> <<>>,
                    results_count |-> file[t].results_count]
              ELSE ts[t]]
    ELSE ts

\* Lines 110-112: load_task_status() is called before task_status is bound,
\* and task_status = {} follows it.
ModuleInitTaskStatus(file) ==
  LET restored == load_task_status(FALSE, EmptyDict, file)
      task_status_112 == EmptyDict
  IN task_status_112

\* The items of task_status in insertion order: the order of the task ids,
\* which start_* hands out in increasing order.
RECURSIVE ItemsFrom(_, _)
ItemsFrom(ts, t) ==
  IF t > MaxTasks THEN <<>>
  ELSE (IF t \in DOMAIN ts THEN <<[id |-> t, record |-> ts[t]]>> ELSE <<>>)
         \o ItemsFrom(ts, t + 1)

Items(ts) == ItemsFrom(ts, 1)

\* get_all_tasks(), lines 86-108: one entry per item, in the order of the dict.
get_all_tasks(items, registry, alive) ==
  [i \in 1..Len(items) |->
     LET status == items[i].record
         is_running == items[i].id \in DOMAIN registry
     IN [task_id |-> items[i].id,
         status |-> Get(status, "status", "unknown"),
         progress |-> Get(status, "progress", 0),
         total |-> Get(status, "total", 0),
         started_at |-> Get(status, "started_at", "unknown"),
         completed_at |-> Get(status, "completed_at", "None"),
         task_type |-> Get(status, "task_type", "unknown"),
         task_params |-> Get(status, "task_params", "{}"),
         is_running |-> is_running,
         thread_alive |-> is_running /\ items[i].id \in alive,
         error |-> Get(status, "error", <<"None">>),
         results_count |-> IF "results_count" \in DOMAIN status
                             THEN status.results_count
                             ELSE Len(ResultsOf(status))]]

Alive == {t \in TaskIds : pc[t] \notin Ended \cup {"created"}}

\* The process is restarted and tasks.py initialised again.  A restart ends
\* every thread; it is taken here when no thread and no request is running.
Restart ==
  /\ boots < MaxRestarts
  /\ \A t \in TaskIds : pc[t] \in Ended
  /\ facade.op = "idle"
  /\ boots' = boots + 1
  /\ task_status' = ModuleInitTaskStatus(task_status_file)
  /\ running_tasks' = EmptyDict
  /\ UNCHANGED <<task_status_file, next_task_id, pc, thread_target, exc, pool,
                 rate_limit_lock, facade, history, limiter, dedup>>

\* The facade call hands its result to the route and the thread is free again.
FacadeReturn ==
  /\ facade.pc = "ret"
  /\ facade' = Idle
  /\ FacadeFrame
  /\ UNCHANGED <<task_status, running_tasks, task_status_file, history>>

\* ------------------------------------------------------------- rate limiter
\* Time is counted in half seconds, so RATE_LIMIT_DELAY = 2.5 s is 5.
RATE_LIMIT_DELAY == 5
MaxCallers == 2
MaxCalls == 3
MaxClock == 18

Callers == 1..MaxCallers

\* Lines 276-279: the time to sleep, 0 when the branch is not taken.
SleepTimeSinceEpoch(current_time, last) ==
  IF current_time < RATE_LIMIT_DELAY THEN RATE_LIMIT_DELAY - current_time ELSE 0

SleepTime(current_time, last) ==
  IF current_time - last < RATE_LIMIT_DELAY
    THEN RATE_LIMIT_DELAY - (current_time - last)
    ELSE 0

AtRest == [pc |-> "idle", current_time |-> 0, wake |-> 0]

\* time.time() of a running process is far beyond RATE_LIMIT_DELAY, so the
\* first call finds last_api_call_time = 0 long past and does not sleep.
InitRate ==
  /\ EngineInit
  /\ DedupAtRest
  /\ now = RATE_LIMIT_DELAY
  /\ last_api_call_time = 0
  /\ caller = [k \in Callers |-> AtRest]
  /\ returns = <<>>

Started == Len(returns) + Cardinality({k \in Callers : caller[k].pc # "idle"})

RateFrame == UNCHANGED <<engine, dedup>>

\* rate_limited_delay() called by thread k, lines 272-281.  The stamp of line
\* 281 is the last statement: leaving the with block and returning follow it
\* at once.
rate_limited_delay(k) ==
  \/ /\ caller[k].pc = "idle"
     /\ Started < MaxCalls
     /\ caller' = [caller EXCEPT ![k].pc = "r274"]
     /\ RateFrame
     /\ UNCHANGED <<rate_limit_lock, now, last_api_call_time, returns>>
  \/ /\ caller[k].pc = "r274"
     /\ rate_limit_lock = NoHolder
     /\ rate_limit_lock' = <<0, k>>
     /\ caller' = [caller EXCEPT ![k].pc = "r275"]
     /\ RateFrame
     /\ UNCHANGED <<now, last_api_call_time, returns>>
  \/ /\ caller[k].pc = "r275"
     /\ caller' = [caller EXCEPT ![k].pc = "r276", ![k].current_time = now]
     /\ RateFrame
     /\ UNCHANGED <<rate_limit_lock, now, last_api_call_time, returns>>
  \/ /\ caller[k].pc = "r276"
     /\ LET sleep_time == SleepTime(caller[k].current_time, last_api_call_time)
        IN caller' = IF sleep_time > 0
                       THEN [caller EXCEPT ![k].pc = "r279", ![k].wake = now + sleep_time]
                       ELSE [caller EXCEPT ![k].pc = "r281"]
     /\ RateFrame
     /\ UNCHANGED <<rate_limit_lock, now, last_api_call_time, returns>>
  \/ /\ caller[k].pc = "r279"
     /\ now >= caller[k].wake
     /\ caller' = [caller EXCEPT ![k].pc = "r281"]
     /\ RateFrame
     /\ UNCHANGED <<rate_limit_lock, now, last_api_call_time, returns>>
  \/ /\ caller[k].pc = "r281"
     /\ last_api_call_time' = now
     /\ rate_limit_lock' = NoHolder
     /\ returns' = Append(returns, [who |-> k, at |-> now])
     /\ caller' = [caller EXCEPT ![k] = AtRest]
     /\ RateFrame
     /\ UNCHANGED now

Tick ==
  /\ now < MaxClock
  /\ now' = now + 1
  /\ RateFrame
  /\ UNCHANGED <<rate_limit_lock, last_api_call_time, caller, returns>>

NextRate ==
  \/ \E k \in Callers : rate_limited_delay(k)
  \/ Tick

SpecRate == InitRate /\ [][NextRate]_vars

\* ------------------------------------------------------------ deduplication
MaxBlocks == 2
MaxBlockQuestions == 1

QuestionTexts == {"q1", "q2"}
Answers == {"A", "B"}

Questions == [question : QuestionTexts, answer : Answers]

QuestionLists ==
  UNION {[1..n -> Questions] : n \in 0..MaxBlockQuestions}

\* A generated block is a dict: the topic under "topic" or under "temat",
\* possibly empty, and the list of questions, possibly absent.
TopicForms ==
  {[topic |-> "T1"], [temat |-> "T2"], [topic |-> "", temat |-> "T2"]}

Merge(a, b) ==
  [k \in DOMAIN a \cup DOMAIN b |-> IF k \in DOMAIN a THEN a[k] ELSE b[k]]

Blocks ==
  TopicForms \cup {Merge(f, [questions |-> qs]) : f \in TopicForms, qs \in QuestionLists}

BlockLists == UNION {[1..n -> Blocks] : n \in 0..MaxBlocks}

\* block.get("topic") or block.get("temat")
TopicOf(block) ==
  IF Get(block, "topic", "None") \notin {"None", ""}
    THEN block.topic
    ELSE Get(block, "temat", "None")

\* Line 31: whether q is kept, given the texts seen so far.
KeepsAll(seen_texts, q) == TRUE

Keeps(seen_texts, q) == q.question \notin seen_texts

\* Lines 30-33: the questions of one block that are kept, and the texts seen.
RECURSIVE KeepQuestions(_, _, _)
KeepQuestions(qs, seen_texts, kept) ==
  IF qs = <<>>
    THEN [seen |-> seen_texts, questions |-> kept]
    ELSE IF Keeps(seen_texts, Head(qs))
      THEN KeepQuestions(Tail(qs), seen_texts \cup {Head(qs).question},
                         Append(kept, Head(qs)))
      ELSE KeepQuestions(Tail(qs), seen_texts, kept)

\* Lines 27-35: the loop over the blocks.
RECURSIVE DedupBlocks(_, _, _)
DedupBlocks(blocks, seen_texts, out) ==
  IF blocks = <<>>
    THEN out
    ELSE LET r == KeepQuestions(Get(Head(blocks), "questions", <<>>), seen_texts, <<>>)
         IN DedupBlocks(Tail(blocks), r.seen,
                        IF r.questions # <<>>
                          THEN Append(out, [temat |-> TopicOf(Head(blocks)),
                                            questions |-> r.questions])
                          ELSE out)

deduplicate_mcqs(list) == DedupBlocks(list, {}, <<>>)

InitDedup ==
  /\ EngineInit
  /\ LimiterAtRest
  /\ mcq_list \in BlockLists
  /\ unique_mcqs = NotCalled
  /\ store = <<>>
  /\ listing = NotCalled
  /\ ChunkerAtRest

CallDedup ==
  /\ ~unique_mcqs.returned
  /\ unique_mcqs' = [returned |-> TRUE, value |-> deduplicate_mcqs(mcq_list)]
  /\ UNCHANGED <<engine, limiter, rate_limit_lock, mcq_list, store, listing, chunker>>

NextDedup == CallDedup

SpecDedup == InitDedup /\ [][NextDedup]_vars

\* ------------------------------------------------------------ task listing
\* get_all_tasks as a function of the store: the store is given as its items
\* in insertion order, the identifiers being uuids, in any order.
MaxListed == 2

ListedIds == 1..MaxListed

Statuses ==
  {"queued", "processing", "cancelling", "completed", "failed", "cancelled", "error"}

Stores ==
  UNION {{s \in [1..n -> [id : ListedIds, record : {[status |-> x] : x \in Statuses}]] :
            \A i, j \in 1..n : i # j => s[i].id # s[j].id} : n \in 0..MaxListed}

InitList ==
  /\ EngineInit
  /\ LimiterAtRest
  /\ mcq_list = <<>>
  /\ unique_mcqs = NotCalled
  /\ store \in Stores
  /\ listing = NotCalled
  /\ ChunkerAtRest

CallList ==
  /\ ~listing.returned
  /\ listing' = [returned |-> TRUE, value |-> get_all_tasks(store, EmptyDict, {})]
  /\ UNCHANGED <<engine, limiter, rate_limit_lock, mcq_list, unique_mcqs, store, chunker>>

NextList == CallList

SpecList == InitList /\ [][NextList]_vars

\* ------------------------------------------------------------- text windows
MaxTextLen == 9
MaxWindow == 3

\* A text is a string: the sequence of its characters, letters and blanks.
Characters == {"a", "b", " "}

Texts == UNION {[1..n -> Characters] : n \in 0..MaxTextLen}

\* q_generation_func.py line 20, text.split(): the maximal runs of non-blank
\* characters, in order; leading, trailing and repeated blanks give no word.
RECURSIVE SplitFrom(_, _, _)
SplitFrom(s, word, out) ==
  IF s = <<>>
    THEN IF word = <<>> THEN out ELSE Append(out, word)
    ELSE IF Head(s) = " "
      THEN SplitFrom(Tail(s), <<>>, IF word = <<>> THEN out ELSE Append(out, word))
      ELSE SplitFrom(Tail(s), Append(word, Head(s)), out)

split(s) == SplitFrom(s, <<>>, <<>>)

\* Line 21, " ".join(ws).
RECURSIVE join(_)
join(ws) ==
  IF ws = <<>> THEN <<>>
  ELSE IF Len(ws) = 1 THEN ws[1]
  ELSE ws[1] \o <<" ">> \o join(Tail(ws))

\* range(start, stop, step) for a positive step.
RECURSIVE range(_, _, _)
range(start, stop, step) ==
  IF start >= stop THEN <<>> ELSE <<start>> \o range(start + step, stop, step)

\* seq[i:j] for 0 <= i <= j: the slice is cut at the end of the list.
Slice(seq, i, j) == SubSeq(seq, i + 1, IF j < Len(seq) THEN j ELSE Len(seq))

\* Line 21: the stop of the range, len(words) - window_size + 1.
range_stopLessOne(n_words, w) == n_words - w

range_stop(n_words, w) == n_words - w + 1

\* Lines 19-21.
sliding_window_chunks(txt, w, s) ==
  LET words == split(txt)
      starts == range(0, range_stop(Len(words), w), s)
  IN [n \in 1..Len(starts) |-> join(Slice(words, starts[n], starts[n] + w))]

\* The function is called once, with any text and any positive window and
\* step (tasks.py line 627 calls it with 1200 and 600).
InitChunks ==
  /\ EngineInit
  /\ LimiterAtRest
  /\ mcq_list = <<>>
  /\ unique_mcqs = NotCalled
  /\ store = <<>>
  /\ listing = NotCalled
  /\ full_text \in Texts
  /\ window_size \in 1..MaxWindow
  /\ step_size \in 1..MaxWindow
  /\ chunks = NotCalled

CallChunks ==
  /\ ~chunks.returned
  /\ chunks' = [returned |-> TRUE,
                value |-> sliding_window_chunks(full_text, window_size, step_size)]
  /\ UNCHANGED <<engine, limiter, rate_limit_lock, mcq_list, unique_mcqs, store,
                 listing, full_text, window_size, step_size>>

NextChunks == CallChunks

SpecChunks == InitChunks /\ [][NextChunks]_vars

\* ------------------------------------------------------------------ claims
Present(t) == t \in DOMAIN task_status

ItemCount(t) == Cardinality(DOMAIN futures[t])

\* C1: once the status of a task is completed, failed or cancelled, no step
\* changes it (a purge may remove the whole record); in particular
\* cancel_task never rewrites it to cancelling.
C1_TerminalStatusNeverChanges ==
  [][\A t \in TaskIds :
       StatusOf(t) \in Terminal => StatusOf(t)' \in {StatusOf(t), "absent"}]_vars

\* C2: a task whose flag cancel_task set while its status was processing,
\* the call returning True, never has the status completed, and its thread
\* ends with the status cancelled.
C2_CancelWhileProcessingWins ==
  \A t \in TaskIds :
    "cancel_processing" \in events[t] /\ Present(t) =>
      /\ StatusOf(t) # "completed"
      /\ pc[t] = "done" /\ facade.op = "idle" => StatusOf(t) = "cancelled"

\* C3: after a thread of the task has read the cancellation flag as true at
\* a checkpoint, the results of the task get no further entry.
C3_NoAppendAfterFlagObserved ==
  [][\A t \in TaskIds :
       /\ events[t] \cap {"obs_top", "obs_pool"} # {}
       /\ Present(t)
       /\ t \in DOMAIN task_status'
       => Len(ResultsOf(task_status[t]')) = Len(ResultsOf(task_status[t]))]_vars

C5_ReturnsSpaced ==
  \A i \in 1..(Len(returns) - 1) :
    returns[i + 1].at - returns[i].at >= RATE_LIMIT_DELAY

\* Three returns, the second by another thread than the first and exactly
\* RATE_LIMIT_DELAY after it: that thread slept with the lock held.
C5_Witness ==
  /\ Len(returns) = 3
  /\ returns[1].who # returns[2].who
  /\ returns[2].at - returns[1].at = RATE_LIMIT_DELAY
  /\ returns[3].at - returns[2].at > RATE_LIMIT_DELAY

\* The questions of a list of blocks, in block order.
RECURSIVE Flat(_)
Flat(blocks) ==
  IF blocks = <<>> THEN <<>>
  ELSE Get(Head(blocks), "questions", <<>>) \o Flat(Tail(blocks))

FirstIndex(qs, text) ==
  CHOOSE i \in 1..Len(qs) :
    qs[i].question = text /\ \A j \in 1..(i - 1) : qs[j].question # text

\* C6: the output of deduplicate_mcqs holds each question text of the input
\* exactly once, the kept item is the first one with that text in block
\* order, and the kept items stand in the order of the input.
C6_FirstOccurrenceKept ==
  unique_mcqs.returned =>
    LET input == Flat(mcq_list)
        output == Flat(unique_mcqs.value)
    IN /\ \A i \in 1..Len(input) :
            Cardinality({j \in 1..Len(output) :
                           output[j].question = input[i].question}) = 1
       /\ \A j \in 1..Len(output) :
            /\ \E i \in 1..Len(input) : input[i].question = output[j].question
            /\ output[j] = input[FirstIndex(input, output[j].question)]
       /\ \A j, k \in 1..Len(output) :
            j < k => FirstIndex(input, output[j].question)
                       < FirstIndex(input, output[k].question)

\* Two blocks with the same question text under different answers, the
\* first with its topic under "temat": one block comes out, with the first
\* block's question and topic.
C6_Witness ==
  /\ unique_mcqs.returned
  /\ Len(mcq_list) = 2
  /\ Len(Flat(mcq_list)) = 2
  /\ Flat(mcq_list)[1].question = Flat(mcq_list)[2].question
  /\ Flat(mcq_list)[1].answer # Flat(mcq_list)[2].answer
  /\ "topic" \in DOMAIN mcq_list[1] /\ mcq_list[1].topic = ""
  /\ unique_mcqs.value = <<[temat |-> "T2", questions |-> <<Flat(mcq_list)[1]>>]>>

\* C7: a single-item task that ran to the end with every call succeeding
\* and no cancellation went through queued, processing, completed and
\* nothing else, and its final record has one result and progress = 1 = total.
C7_ValidSingleRun ==
  \A t \in TaskIds :
    /\ thread_target[t] = "single"
    /\ pc[t] = "done"
    /\ Present(t)
    /\ StatusOf(t) = "completed"
    /\ "cancel_req" \notin events[t]
    => /\ seen[t] = {"queued", "processing", "completed"}
       /\ Len(ResultsOf(task_status[t])) = 1
       /\ task_status[t].progress = 1
       /\ "total" \in DOMAIN task_status[t]
       /\ task_status[t].total = 1

C9_CancelMidRunEndsCancelled ==
  \A t \in TaskIds :
    /\ "cancel_midrun" \in events[t]
    /\ pc[t] = "done"
    /\ facade.op = "idle"
    /\ Present(t)
    => /\ StatusOf(t) = "cancelled"
       /\ Len(ResultsOf(task_status[t])) <= Get(task_status[t], "total", 0)
       /\ t \notin DOMAIN running_tasks

\* C10: a pipeline task whose relevance check returned false ends with the
\* status failed and an error, and makes no generation call.
C10_IrrelevantFails ==
  \A t \in TaskIds :
    /\ "rel_false" \in events[t]
    /\ pc[t] = "done"
    /\ Present(t)
    /\ "cancel_req" \notin events[t]
    => /\ StatusOf(t) = "failed"
       /\ task_status[t].error # NoError
       /\ "gen_call" \notin events[t]

\* C11: after a restart the task listing has exactly the task ids of the
\* snapshot, each with the status, progress and total of the snapshot and
\* with no results.
C11_RestartRestoresSnapshot ==
  [][boots' = boots + 1 =>
       LET listed == get_all_tasks(Items(task_status'), running_tasks', Alive')
       IN /\ {listed[i].task_id : i \in 1..Len(listed)} = DOMAIN task_status_file
          /\ \A i \in 1..Len(listed) :
               LET t == listed[i].task_id
               IN /\ listed[i].status = task_status_file[t].status
                  /\ listed[i].progress = task_status_file[t].progress
                  /\ listed[i].total = task_status_file[t].total
                  /\ ResultsOf(task_status'[t]) = <<>>]_vars

\* C12: no call of cancel_task, cancel_all_tasks or the purge raises an
\* exception to its caller, whatever the threads do in between.
C12_NoFacadeCallRaises == facade.ret # "raise"

\* C13: a call of cancel_task that found a registry entry for t returns True
\* and has set the entry's flag; a call that found none returns False and
\* changes no record and no registry entry; no step of the call moves or
\* ends a thread.
C13_CancelTaskFrame ==
  [][(facade.op = "cancel_task" /\ facade.pc \in {"c119", "c121", "c122"}
        /\ facade' # facade) =>
       /\ pc' = pc
       /\ futures' = futures
       /\ facade'.pc = "ret" =>
            IF facade.pc = "c119"
              THEN /\ facade.t \notin DOMAIN running_tasks
                   /\ facade'.ret = "False"
                   /\ task_status' = task_status
                   /\ running_tasks' = running_tasks
              ELSE /\ facade'.ret = "True"
                   /\ facade.t \in DOMAIN running_tasks' =>
                        running_tasks'[facade.t].cancelled]_vars

\* ------------------------------------------------------------ specification
\* C14: when cancel_all_tasks returns, it returns a count, the count is the
\* number of registry entries that were live when it was called (so it is 0
\* exactly when none was registered), and the flag of each of them has been
\* set.
C14_CancelAllCountsLiveEntries ==
  (facade.op = "cancel_all_tasks" /\ facade.pc = "ret") =>
    /\ facade.ret = "count"
    /\ facade.count = Cardinality(facade.keys)
    /\ \A t \in facade.keys : "cancel_req" \in events[t]

\* C15: a fan-out task whose selection yields no work item (no row for the
\* question ids, or no question row for the ids) has, once its thread has
\* ended, status completed with a no-op message as error, and never held
\* failed.
C15_ZeroItemsCompletes ==
  \A t \in TaskIds :
    (/\ thread_target[t] = "fanout"
     /\ "zero_items" \in events[t]
     /\ "cancel_req" \notin events[t]
     /\ pc[t] = "done"
     /\ Present(t)) =>
      /\ StatusOf(t) = "completed"
      /\ task_status[t].error = MsgAllExplained
      /\ "failed" \notin seen[t]

\* C16: once the thread of a task has ended with the task in a terminal
\* status, whatever the exit path, running_tasks holds no entry for the task.
C16_EndedTaskUnregistered ==
  \A t \in TaskIds :
    (pc[t] = "done" /\ Present(t) /\ StatusOf(t) \in Terminal) =>
      t \notin DOMAIN running_tasks

\* C17: in every reachable state a record that a start operation created and
\* that is queued or processing has its entry in running_tasks, so that a
\* cancel_task on it finds the entry.
C17_RecordHasEntry ==
  \A t \in TaskIds :
    (Present(t) /\ StatusOf(t) \in {"queued", "processing"}) =>
      t \in DOMAIN running_tasks

\* C18: a pipeline task whose document was extracted and found relevant, with
\* no collaborator failing and no cancellation requested, has, once its
\* thread has ended, status completed and a download_url.
C18_PipelineCompletes ==
  \A t \in TaskIds :
    (/\ thread_target[t] = "pipeline"
     /\ "ai_relevance" \in events[t]
     /\ "rel_false" \notin events[t]
     /\ "cancel_req" \notin events[t]
     /\ pc[t] = "done"
     /\ Present(t)) =>
      /\ StatusOf(t) = "completed"
      /\ Get(task_status[t], "download_url", "None") # "None"

\* C19: the step on which the purge returns removes exactly the records
\* whose status is completed, failed or cancelled, returns their number,
\* leaves every other record and every registry entry unchanged, and leaves
\* no record with a terminal status in the store.
C19_PurgeRemovesTerminal ==
  [][(facade.op = "clear_completed_tasks" /\ facade.pc = "p498"
        /\ facade'.pc = "ret") =>
       LET removed == DOMAIN task_status \ DOMAIN task_status'
       IN /\ removed = {t \in DOMAIN task_status :
                          task_status[t].status \in {"completed", "failed", "cancelled"}}
          /\ facade'.count = Cardinality(removed)
          /\ \A t \in DOMAIN task_status' : task_status'[t] = task_status[t]
          /\ running_tasks' = running_tasks
          /\ \A t \in DOMAIN task_status' :
               task_status'[t].status \notin {"completed", "failed", "cancelled"}]_vars

Priority(s) ==
  CASE s = "processing" -> 1
    [] s = "queued" -> 2
    [] s = "completed" -> 3
    [] s = "failed" -> 4
    [] s = "cancelled" -> 5
    [] OTHER -> 0

StorePosition(id) == CHOOSE i \in 1..Len(store) : store[i].id = id

\* C20: the listing returns the tasks in the order of the status priority
\* processing < queued < completed < failed < cancelled, tasks of the same
\* status in the order in which they were inserted.
C20_ListingByPriority ==
  listing.returned =>
    \A i, j \in 1..Len(listing.value) :
      LET a == listing.value[i]
          b == listing.value[j]
      IN (i < j /\ Priority(a.status) > 0 /\ Priority(b.status) > 0) =>
           \/ Priority(a.status) < Priority(b.status)
           \/ /\ a.status = b.status
              /\ StorePosition(a.task_id) < StorePosition(b.task_id)

\* C21: once the thread of a task has ended with the task in a terminal
\* status, the snapshot file has an entry for the task and the entry shows
\* the status, progress, total, error and result count of the live record.
C21_SnapshotShowsTerminal ==
  \A t \in TaskIds :
    (pc[t] = "done" /\ Present(t) /\ StatusOf(t) \in Terminal) =>
      /\ t \in DOMAIN task_status_file
      /\ task_status_file[t].status = StatusOf(t)
      /\ task_status_file[t].progress = Projection(task_status)[t].progress
      /\ task_status_file[t].total = Projection(task_status)[t].total
      /\ task_status_file[t].error = Projection(task_status)[t].error
      /\ task_status_file[t].results_count = Projection(task_status)[t].results_count

StatusEdges ==
  {<<"queued", "processing">>, <<"processing", "cancelling">>,
   <<"cancelling", "cancelled">>, <<"processing", "completed">>,
   <<"processing", "failed">>, <<"processing", "cancelled">>}

\* C22: every step that changes the status of a task's record takes one of
\* the edges queued->processing, processing->cancelling,
\* cancelling->cancelled, processing->completed, processing->failed,
\* processing->cancelled, or queued->completed for a task with no work item;
\* the status is always one of these six values.
C22_StatusEdges ==
  [][\A t \in TaskIds :
       (Present(t) /\ t \in DOMAIN task_status') =>
         /\ StatusOf(t)' \in {"queued", "processing", "cancelling",
                               "completed", "failed", "cancelled"}
         /\ StatusOf(t)' # StatusOf(t) =>
              \/ <<StatusOf(t), StatusOf(t)'>> \in StatusEdges
              \/ /\ <<StatusOf(t), StatusOf(t)'>> = <<"queued", "completed">>
                 /\ "zero_items" \in events[t]]_vars

C24_CheckpointsObserveFlag ==
  [][\A t \in TaskIds :
       "cancel_req" \in events[t] =>
         /\ (pc[t] \in {"s199", "s216", "f402", "m638"} \cup GenProbes /\ pc'[t] # pc[t]) =>
              pc'[t] \in {"s200", "s217", "f404", "m639", "s254"}
         /\ \A i \in DOMAIN futures[t] :
              (/\ futures[t][i] \in WorkerProbes \cup GenProbes
               /\ i \in DOMAIN futures'[t]
               /\ futures'[t][i] # futures[t][i]) =>
                futures'[t][i] = "err"]_vars

\* C25: a thread of a task makes a call to the AI dependency (the
\* explanation call, the relevance check, a generation call) only after it
\* has returned from rate_limited_delay: a task with an AI call in its
\* history has a return from rate_limited_delay in its history.
C25_ThrottleBeforeAiCall ==
  \A t \in TaskIds :
    events[t] \cap {"gen_call", "ai_relevance"} # {} => "throttle" \in events[t]

\* C26 as stated: from the moment the fan-out runner has read the flag as
\* set at line 402, no item that has not started is started, and the step of
\* line 408 marks the task cancelled and keeps the entries collected so far.
C26_NoStartAfterObservation ==
  [][\A t \in TaskIds :
       (thread_target[t] = "fanout" /\ "obs_top" \in events[t]) =>
         /\ \A i \in DOMAIN futures[t] :
              futures[t][i] = "pending" => futures'[t][i] \in {"pending", "cancelled"}
         /\ (pc[t] = "f408" /\ pc'[t] = "f410") =>
              /\ StatusOf(t)' = "cancelled"
              /\ ResultsOf(task_status[t])' = ResultsOf(task_status[t])]_vars

\* C26 amended: once the fan-out runner, having read the flag as set, has
\* called cancel() on every future (lines 404-405), no item is waiting to be
\* started, no cancelled item is ever started, a running item is left to
\* run, and the step of line 408 marks the task cancelled and keeps the
\* entries collected so far.
C26_NoStartAfterCancelLoop ==
  [][\A t \in TaskIds :
       (thread_target[t] = "fanout" /\ "obs_top" \in events[t] /\ pc[t] # "f404") =>
         /\ \A i \in DOMAIN futures[t] :
              /\ futures[t][i] # "pending"
              /\ futures[t][i] = "cancelled" => futures'[t][i] = "cancelled"
              /\ futures[t][i] \notin Finished => futures'[t][i] # "cancelled"
         /\ (pc[t] = "f408" /\ pc'[t] = "f410") =>
              /\ StatusOf(t)' = "cancelled"
              /\ ResultsOf(task_status[t])' = ResultsOf(task_status[t])]_vars

\* The runner read the flag after the first of two items, cancelled the
\* second, which had not started, marked the task cancelled and ended.
C26_Witness ==
  \E t \in TaskIds :
    /\ thread_target[t] = "fanout"
    /\ "obs_top" \in events[t]
    /\ pc[t] = "done"
    /\ ItemCount(t) = 2
    /\ futures[t][1] \in Finished \ {"cancelled"}
    /\ futures[t][2] = "cancelled"
    /\ "cancelled" \in seen[t]

\* C27: a single-item task whose flag cancel_task set while its thread stood
\* before the checkpoint of line 199 never calls the generator; one whose flag
\* was set while the generator call was running makes no database update; in
\* both cases no result is appended and, once the thread has ended, the
\* status is cancelled and the registry entry is gone.
C27_SingleCheckpoints ==
  \A t \in TaskIds :
    (/\ thread_target[t] = "single"
     /\ events[t] \cap {"cancel_before_gen", "cancel_in_gen"} # {}
     /\ Present(t)) =>
      /\ "cancel_before_gen" \in events[t] => "gen_call" \notin events[t]
      /\ "db_update" \notin events[t]
      /\ ResultsOf(task_status[t]) = <<>>
      /\ (pc[t] = "done" /\ facade.op = "idle") =>
           /\ StatusOf(t) = "cancelled"
           /\ t \notin DOMAIN running_tasks

\* C28: every step that writes to the record of a task (the creation of the
\* record by a start function and its removal by the purge aside) is a
\* statement of the task's thread inside a "with status_lock:" block.
C28_WritesHoldStatusLock ==
  [][\A t \in TaskIds :
       (/\ Present(t)
        /\ t \in DOMAIN task_status'
        /\ task_status'[t] # task_status[t]) =>
         /\ pc[t] \in WithStatusLock
         /\ pc'[t] # pc[t]]_vars

\* C29: in every state, a record whose total is known and not zero has
\* progress <= total, and so has its entry in the snapshot file.
C29_ProgressAtMostTotal ==
  \A t \in TaskIds :
    /\ (Present(t) /\ Get(task_status[t], "total", 0) >= 1) =>
         Get(task_status[t], "progress", 0) <= task_status[t].total
    /\ (t \in DOMAIN task_status_file /\ task_status_file[t].total >= 1) =>
         task_status_file[t].progress <= task_status_file[t].total

\* A fan-out task of two items that has collected both: progress = total = 2.
C29_Witness ==
  \E t \in TaskIds :
    /\ Present(t)
    /\ Get(task_status[t], "total", 0) = 2
    /\ Get(task_status[t], "progress", 0) = 2
    /\ StatusOf(t) = "processing"

ProgressOf(rec) == Get(rec, "progress", 0)

\* C30: in every state, the record of a single-item or fan-out task has
\* progress equal to the number of entries of its results, and no step
\* between two non-terminal states of the record lowers progress.
C30_ProgressCountsResults ==
  [][\A t \in TaskIds :
       (Present(t) /\ thread_target[t] \in {"single", "fanout"}) =>
         /\ ProgressOf(task_status[t]) = Len(ResultsOf(task_status[t]))
         /\ (/\ t \in DOMAIN task_status'
             /\ StatusOf(t) \notin Terminal
             /\ StatusOf(t)' \notin Terminal) =>
              ProgressOf(task_status[t])' >= ProgressOf(task_status[t])]_vars

IsPrefix(a, b) == Len(a) <= Len(b) /\ \A k \in 1..Len(a) : b[k] = a[k]

\* C31: on every step that keeps the record of a task, the results of the
\* record before the step are a prefix of its results after the step:
\* entries are appended only, also when the task fails or is cancelled.
C31_ResultsAppendOnly ==
  [][\A t \in TaskIds :
       (Present(t) /\ t \in DOMAIN task_status') =>
         IsPrefix(ResultsOf(task_status[t]), ResultsOf(task_status[t])')]_vars

\* A fan-out task of two items cancelled after its first entry was appended:
\* the thread has ended, the status is cancelled and the entry is kept.
C31_Witness ==
  \E t \in TaskIds :
    /\ thread_target[t] = "fanout"
    /\ pc[t] = "done"
    /\ Present(t)
    /\ StatusOf(t) = "cancelled"
    /\ ItemCount(t) = 2
    /\ Len(ResultsOf(task_status[t])) = 1

\* C32: no caller of rate_limited_delay() is sleeping for pacing (line 280) while it holds the rate-limit lock: the wait is computed under the lock and the lock is released before the sleep.
C32_NoSleepUnderLock ==
  \A k \in Callers : caller[k].pc = "r279" => rate_limit_lock # <<0, k>>

\* C33: a pipeline task whose structured-item generation call for a window (line 650) fails never ends failed because of it: after the throttle that precedes the call, the task does not take status failed.
C33_WindowFailureContinues ==
  \A t \in TaskIds :
    (thread_target[t] = "pipeline" /\ "throttle" \in events[t]) =>
      "failed" \notin seen[t]

\* C34: a pipeline task whose window-boundary check (line 638) found the cancellation flag set makes no generation call (and so no throttle, export or upload) after it and, once its thread has ended and no facade call is running, its status is cancelled and its registry entry is gone.
C34_BoundaryCheckCancels ==
  \A t \in TaskIds :
    (/\ thread_target[t] = "pipeline"
     /\ "obs_top" \in events[t]
     /\ Present(t)) =>
      /\ "throttle" \notin events[t]
      /\ pc[t] \notin {"m644", "m647", "m281", "m650"}
      /\ (pc[t] = "done" /\ facade.op = "idle") =>
           /\ StatusOf(t) = "cancelled"
           /\ t \notin DOMAIN running_tasks

Max(a, b) == IF a >= b THEN a ELSE b

\* C35: for a text of L words and 0 < step_size < window_size, sliding_window_chunks returns max(0, floor((L - w) / s) + 1) windows, window k is exactly the w words starting at word k*s, consecutive windows share exactly their w - s overlapping words, and a text of fewer than w words gives no window.
C35_WindowsOfText ==
  (chunks.returned /\ 0 < step_size /\ step_size < window_size) =>
    LET words == split(full_text)
        L == Len(words)
        w == window_size
        s == step_size
        n == Len(chunks.value)
        window(k) == split(chunks.value[k + 1])
    IN /\ n = Max(0, ((L - w) \div s) + 1)
       /\ \A k \in 0..(n - 1) :
            /\ Len(window(k)) = w
            /\ window(k) = SubSeq(words, k * s + 1, k * s + w)
       /\ \A k \in 0..(n - 2) :
            /\ SubSeq(window(k), s + 1, w) = SubSeq(window(k + 1), 1, w - s)
            /\ Cardinality((k * s + 1..k * s + w) \cap ((k + 1) * s + 1..(k + 1) * s + w)) = w - s
       /\ L < w => n = 0

C35_Witness ==
  /\ chunks.returned
  /\ window_size = 3 /\ step_size = 2
  /\ Len(split(full_text)) = 5
  /\ Len(chunks.value) = 2

\* C36: a step records status cancelled for a task only if cancel_task or cancel_all_tasks set the task's cancellation flag before (a collaborator failure without a request is never recorded as cancelled, whatever its message), and no step records status failed for a task whose flag was set while its runner stood before or inside the generation work.
C36_CancelledOnlyOnRequest ==
  [][\A t \in TaskIds :
       /\ ("cancelled" \notin seen[t] /\ "cancelled" \in seen'[t]) =>
            "cancel_req" \in events[t]
       /\ ("failed" \notin seen[t] /\ "failed" \in seen'[t]) =>
            events[t] \cap {"cancel_before_gen", "cancel_in_gen", "cancel_midrun"} = {}]_vars

\* C37: no task is left in a non-terminal status: once the thread of a task has ended and no facade call is running (nothing is left that would write to the record), the status of the record is completed, failed or cancelled.
C37_EndedTaskIsTerminal ==
  \A t \in TaskIds :
    (pc[t] = "done" /\ facade.op = "idle" /\ Present(t)) =>
      StatusOf(t) \in Terminal

Identifying(rec) ==
  [task_type |-> Get(rec, "task_type", "None"),
   task_params |-> Get(rec, "task_params", "None"),
   started_at |-> Get(rec, "started_at", "None")]

\* C38: on every step that keeps the record of a task, the fields written at start (task_type, task_params, started_at) are the same before and after the step, on every path: completed, completed with zero items, failed and cancelled.
C38_IdentifyingFieldsKept ==
  [][\A t \in TaskIds :
       (Present(t) /\ t \in DOMAIN task_status') =>
         Identifying(task_status[t])' = Identifying(task_status[t])]_vars

\* C39: no thread holds the rate-limit lock and the status lock together or waits for one while holding the other: the rate-limit lock is held only by a pool worker or a pipeline thread inside rate_limited_delay(), never by a thread standing at a statement under status_lock, and a statement under status_lock can always be executed, also while a worker sleeps with the rate-limit lock.
C39_LocksIndependent ==
  \A t \in TaskIds :
    /\ rate_limit_lock = <<t, 0>> =>
         (thread_target[t] = "pipeline" /\ pc[t] = "m281")
    /\ \A i \in DOMAIN futures[t] :
         rate_limit_lock = <<t, i>> => futures[t][i] = "w281"
    /\ pc[t] \in WithStatusLock =>
         /\ rate_limit_lock # <<t, 0>>
         /\ ENABLED process_question_explanation(t)

C39_Witness ==
  \E t \in TaskIds :
    /\ pc[t] = "f414"
    /\ \E i \in DOMAIN futures[t] :
         futures[t][i] = "w281" /\ rate_limit_lock = <<t, i>>

Next ==
  \/ \E t \in TaskIds : start_single_question_explanation_task(t)
  \/ \E t \in TaskIds : process_single_question_explanation(t)
  \/ \E t \in TaskIds : start_explanation_task(t)
  \/ \E t \in TaskIds : process_question_explanation(t)
  \/ \E t \in TaskIds, i \in 1..MaxQuestions : process_single_question(t, i)
  \/ \E t \in TaskIds : start_mcq_generation_task(t)
  \/ \E t \in TaskIds : process_mcqs_task(t)
  \/ cancel_task
  \/ cancel_all_tasks
  \/ clear_completed_tasks
  \/ FacadeReturn
  \/ Restart

Spec == Init /\ [][Next]_vars

=============================================================================
